---- MODULE Spec2Model ----
(***************************************************************************)
(* The two Express servers of expedia-server (src/index.js and the older   *)
(* src/unnamed/part_000) over the MongoDB database "brianExpediaDB".        *)
(*                                                                         *)
(* Every HTTP request is one slot r \in Req.  A handler runs from its       *)
(* arrival to its first `await`, and from one `await` to the next, without  *)
(* interruption (Node's event loop); the store executes each findOne /      *)
(* insertOne / updateOne / find atomically.  Each action below is therefore *)
(* one store call together with the handler code that follows it.           *)
(*                                                                         *)
(* JavaScript objects are functions with a finite domain of field names:    *)
(* a field that was never set is not in the DOMAIN.                         *)
(*                                                                         *)
(* Store calls succeed, except insertOne of POST /bookings, which may fail  *)
(* (the handler's catch answers 500).  The server's local time has no       *)
(* daylight-saving change within the days the model covers.                 *)
(***************************************************************************)
EXTENDS Integers, Sequences, FiniteSets, TLC

VARIABLES
    users,      \* collection "users": sequence of documents, in insertion order
    bookings,   \* collection "allBookings": sequence of documents
    nextId,     \* the next ObjectId the driver generates
    now,        \* the wall clock read by `new Date()`
    pc,         \* pc[r]: where request r is in its handler
    req,        \* req[r]: the request (server, route, body / query / params)
    loc,        \* loc[r]: the handler's local variables that survive an await
    last        \* the latest exchange completed: the request and its response

vars == <<users, bookings, nextId, now, pc, req, loc, last>>

(***************************************************************************)
(* Bounds of the model.                                                    *)
(***************************************************************************)
MaxReq == 3         \* requests in one behaviour
MaxTime == 2        \* the clock runs over 0..MaxTime
MaxCardLen == 5     \* longest card-number string in a payload
TicksPerDay == 2    \* resolution of the clock: instants per calendar day

Req == 1..MaxReq

NoReq == [route |-> "none"]
NoLoc == [none |-> TRUE]
NoLast == [req |-> NoReq, res |-> [status |-> 0]]

(***************************************************************************)
(* Generic helpers for JavaScript objects and for sequences.               *)
(***************************************************************************)
\* obj.f is a truthy string: the field exists and is not the empty string
Truthy(obj, f) == f \in DOMAIN obj /\ obj[f] # ""

\* { ...a, ...b }: the fields of b override those of a
Spread(a, b) == b @@ a

\* the object without field f
Without(obj, f) == [g \in DOMAIN obj \ {f} |-> obj[g]]

Range(s) == {s[i] : i \in DOMAIN s}

\* res.status(..).json(..): the handler of request r ends
Respond(r, request, response) ==
    /\ last' = [req |-> request, res |-> response]
    /\ pc' = [pc EXCEPT ![r] = "done"]
    /\ req' = [req EXCEPT ![r] = NoReq]
    /\ loc' = [loc EXCEPT ![r] = NoLoc]

\* the handler of request r awaits its next store call, keeping `locals`
Await(r, label, request, locals) ==
    /\ pc' = [pc EXCEPT ![r] = label]
    /\ req' = [req EXCEPT ![r] = request]
    /\ loc' = [loc EXCEPT ![r] = locals]
    /\ UNCHANGED last

\* requests arrive in slot order (slots are only names for requests)
Arrives(r) ==
    /\ pc[r] = "idle"
    /\ \A q \in 1..(r - 1) : pc[q] # "idle"

(***************************************************************************)
(* Users: POST /users in both servers.                                     *)
(***************************************************************************)
Servers == {"index", "part_000"}

\* req.body of POST /users; part_000 stores the body as it came, so a caller
\* can also set isAdmin there
UserBodies ==
    {[name |-> "n", email |-> e] : e \in {"a", "b", ""}}
        \cup {[name |-> "", email |-> "a"], [name |-> "n"], [email |-> "a"],
              [name |-> "m", email |-> "a", isAdmin |-> TRUE]}

\* findOne with the fault of never finding the user (C4 must detect it)
UsersFindOneNever(email) == {}

\* Users.findOne({ email }): the first document with that email, or none
UsersFindOne(email) ==
    LET hits == {i \in DOMAIN users : "email" \in DOMAIN users[i]
                                      /\ users[i].email = email}
    IN  IF hits = {} THEN {}
        ELSE {users[CHOOSE i \in hits : \A j \in hits : i <= j]}

\* the document each server builds for insertOne
NewUser(server, body) ==
    IF server = "index"
    THEN [name |-> body.name, email |-> body.email,
          isAdmin |-> FALSE, createdAt |-> now]
    ELSE body

\* arrival and validation: `if (!name || !email) return 400`
PostUsers(r) ==
    /\ Arrives(r)
    /\ \E server \in Servers, body \in UserBodies :
        LET request == [server |-> server, route |-> "POST /users", body |-> body]
        IN  IF ~Truthy(body, "name") \/ ~Truthy(body, "email")
            THEN Respond(r, request, [status |-> 400])
            ELSE Await(r, "users_findOne", request, NoLoc)
    /\ UNCHANGED <<users, bookings, nextId, now>>

\* `existing = await Users.findOne({ email }); if (existing) return 409`
PostUsersFindOne(r) ==
    /\ pc[r] = "users_findOne"
    /\ IF UsersFindOne(req[r].body.email) # {}
       THEN Respond(r, req[r], [status |-> 409])
       ELSE Await(r, "users_insertOne", req[r], NoLoc)
    /\ UNCHANGED <<users, bookings, nextId, now>>

\* `result = await Users.insertOne(user); res.status(201)`
PostUsersInsertOne(r) ==
    /\ pc[r] = "users_insertOne"
    /\ users' = Append(users,
                       Spread(NewUser(req[r].server, req[r].body), [_id |-> nextId]))
    /\ nextId' = nextId + 1
    /\ Respond(r, req[r], [status |-> 201, insertedId |-> nextId])
    /\ UNCHANGED <<bookings, now>>

(***************************************************************************)
(* JavaScript Date values.  A Date is an instant [t |-> n] (n counts clock  *)
(* instants, TicksPerDay of them to a calendar day) or the Invalid Date.    *)
(***************************************************************************)
InvalidDate == [invalid |-> TRUE]
DateAt(t) == [t |-> t]
IsValidDate(d) == "t" \in DOMAIN d

\* a JSON string that Date parsing maps to instant t, and one it cannot parse
IsoString(t) == [type |-> "string", iso |-> t]
BadString == [type |-> "string", text |-> "soon"]

\* new Date(obj.f), obj.f a stored JSON string or undefined
NewDate(obj, f) ==
    IF f \in DOMAIN obj /\ "iso" \in DOMAIN obj[f] THEN DateAt(obj[f].iso)
    ELSE InvalidDate

RefundDays == 3

\* d.setDate(d.getDate() - RefundDays): the same time of day, whole calendar
\* days earlier; an Invalid Date stays invalid
SetDateBack(d) ==
    IF IsValidDate(d)
    THEN DateAt(((d.t \div TicksPerDay) - RefundDays) * TicksPerDay
                    + (d.t % TicksPerDay))
    ELSE d

\* the comparison with the fault of <= in place of < (C3 must detect it)
DateLessOrEqual(a, b) == IsValidDate(a) /\ IsValidDate(b) /\ a.t <= b.t

\* a < b on Dates: false when either side is the Invalid Date (NaN)
DateLess(a, b) == IsValidDate(a) /\ IsValidDate(b) /\ a.t < b.t

\* formatDisplayDate: the calendar day, without the time of day
FormatDisplayDate(obj, f) ==
    LET d == NewDate(obj, f)
    IN  IF IsValidDate(d) THEN [type |-> "string", display |-> d.t \div TicksPerDay]
        ELSE [type |-> "string", text |-> "Invalid Date"]

(***************************************************************************)
(* Card numbers and their masking.                                         *)
(***************************************************************************)
Digits == <<"1", "2", "3", "4", "5", "6", "7", "8", "9">>
CardString(chars) == [kind |-> "string", chars |-> chars]
CardNumber(n) == [kind |-> "number", n |-> n]

\* the card numbers a payload may carry: strings of every length up to
\* MaxCardLen (the empty string included) and JSON numbers
CardNumbers ==
    {CardString(SubSeq(Digits, 1, n)) : n \in 0..MaxCardLen}
        \cup {CardNumber(0), CardNumber(41111234)}

\* JavaScript truthiness of a card number
CardTruthy(card) ==
    IF card.kind = "string" THEN Len(card.chars) > 0 ELSE card.n # 0

LastShown == 4
MaskPrefix == <<"bullet", "bullet", "bullet", "bullet", " ",
                "bullet", "bullet", "bullet", "bullet", " ",
                "bullet", "bullet", "bullet", "bullet", " ">>

\* cardNumber.slice(-4)
Last4(chars) ==
    IF Len(chars) <= LastShown THEN chars
    ELSE SubSeq(chars, Len(chars) - LastShown + 1, Len(chars))

\* maskCardNumber throws a TypeError on a value without .slice (a number)
MaskThrows(card) == card.kind # "string"
maskCardNumber(card) == CardString(MaskPrefix \o Last4(card.chars))

(***************************************************************************)
(* Bookings: POST /bookings.                                               *)
(***************************************************************************)
PaymentInfos ==
    {[method |-> "card"]}
        \cup {[method |-> "card", cardNumber |-> c] : c \in CardNumbers}

Stay == [email |-> "a", resortId |-> "r1",
         startDate |-> IsoString(3 * TicksPerDay + 1),
         endDate |-> IsoString(4 * TicksPerDay)]

\* payloads that differ in their payment information
CardBodies ==
    {Stay} \cup {Spread(Stay, [paymentInfo |-> p]) : p \in PaymentInfos}

\* payloads with and without a stay start
StartBodies == {Stay, Without(Stay, "startDate")}

\* payloads that differ in owner, resort, stay dates and payment information
StayBodies ==
    {Stay,
     Spread(Stay, [paymentInfo |-> [method |-> "card",
                                    cardNumber |-> CardString(SubSeq(Digits, 1, 5))]]),
     Spread(Stay, [email |-> "b", resortId |-> "r2",
                   startDate |-> IsoString(1), endDate |-> IsoString(2 * TicksPerDay)]),
     Spread(Stay, [startDate |-> BadString])}

\* `TR-${Math.floor(100000 + Math.random() * 900000)}`
BookingNumbers == {100000, 999999}

\* arrival: builds newBooking, then awaits insertOne
PostBookings(r, bodies) ==
    /\ Arrives(r)
    /\ \E body \in bodies, n \in BookingNumbers :
        LET newBooking == Spread(body, [bookingId |-> <<"TR-", n>>,
                                        createdAt |-> DateAt(now),
                                        updatedAt |-> DateAt(now),
                                        paymentDate |-> DateAt(now)])
        IN  Await(r, "bookings_insertOne",
                  [server |-> "index", route |-> "POST /bookings", body |-> body],
                  [newBooking |-> newBooking])
    /\ UNCHANGED <<users, bookings, nextId, now>>

\* the `data` of the 201 response
CreatedData(newBooking, insertedId) ==
    LET masked ==
            IF "paymentInfo" \in DOMAIN newBooking
            THEN [paymentInfo |->
                    IF "cardNumber" \in DOMAIN newBooking.paymentInfo
                       /\ CardTruthy(newBooking.paymentInfo.cardNumber)
                    THEN Spread(newBooking.paymentInfo,
                                [cardNumber |->
                                    maskCardNumber(newBooking.paymentInfo.cardNumber)])
                    ELSE newBooking.paymentInfo]
            ELSE <<>>
    IN  Spread(Spread(newBooking, [_id |-> insertedId]), masked)

\* whether building the 201 response throws (caught: the response is 500)
ResponseThrows(newBooking) ==
    /\ "paymentInfo" \in DOMAIN newBooking
    /\ "cardNumber" \in DOMAIN newBooking.paymentInfo
    /\ CardTruthy(newBooking.paymentInfo.cardNumber)
    /\ MaskThrows(newBooking.paymentInfo.cardNumber)

\* `result = await Bookings.insertOne(newBooking)`, then the response; the
\* store may reject the insert (ok = FALSE), which the catch turns into 500
PostBookingsInsertOne(r) ==
    /\ pc[r] = "bookings_insertOne"
    /\ \E ok \in BOOLEAN :
        LET newBooking == loc[r].newBooking
        IN  IF ~ok
            THEN /\ Respond(r, req[r], [status |-> 500])
                 /\ UNCHANGED <<bookings, nextId>>
            ELSE /\ bookings' = Append(bookings, Spread(newBooking, [_id |-> nextId]))
                 /\ nextId' = nextId + 1
                 /\ IF ResponseThrows(newBooking)
                    THEN Respond(r, req[r], [status |-> 500])
                    ELSE Respond(r, req[r],
                                 [status |-> 201,
                                  bookingId |-> newBooking.bookingId,
                                  data |-> CreatedData(newBooking, nextId)])
    /\ UNCHANGED <<users, now>>

(***************************************************************************)
(* Bookings: PUT /bookings/:id/cancel.                                     *)
(***************************************************************************)
\* the :id path parameter: a 24-digit hex string (naming ObjectId oid) or a
\* string `new ObjectId(id)` rejects
HexId(n) == [hex |-> TRUE, oid |-> n]
MalformedId == [hex |-> FALSE]
CancelIds == {HexId(1), HexId(2), MalformedId}

\* `new ObjectId(id)` throws on a malformed string
ObjectIdThrows(id) == ~id.hex

CancelRequests ==
    {[server |-> "index", route |-> "PUT /bookings/:id/cancel", id |-> id, body |-> b] :
        id \in CancelIds, b \in {<<>>, [cancellationReason |-> "changed plans"]}}

\* Bookings.findOne({ _id }): the index of the document, or 0
BookingsFindOne(oid) ==
    IF \E i \in DOMAIN bookings : bookings[i]._id = oid
    THEN CHOOSE i \in DOMAIN bookings : bookings[i]._id = oid
    ELSE 0

\* the check with the fault of never seeing a cancelled booking (C1 must
\* detect it)
IsCancelledNever(booking) == FALSE

\* booking.status === "cancelled"
IsCancelled(booking) == "status" \in DOMAIN booking /\ booking.status = "cancelled"

\* now < refundDeadline, refundDeadline = new Date(booking.startDate) less 3 days
RefundEligible(booking, at) ==
    DateLess(at, SetDateBack(NewDate(booking, "startDate")))

\* the `update` object of the handler
CancelUpdate(booking, body, at) ==
    [status |-> "cancelled",
     updatedAt |-> at,
     cancellation |->
        [date |-> at,
         reason |-> IF Truthy(body, "cancellationReason") THEN body.cancellationReason
                    ELSE "User requested",
         refundEligible |-> RefundEligible(booking, at)]]

\* arrival: `new ObjectId(id)` is evaluated before findOne is awaited; when it
\* throws, the catch answers 500
CancelBooking(r) ==
    /\ Arrives(r)
    /\ \E request \in CancelRequests :
        IF ObjectIdThrows(request.id)
        THEN Respond(r, request, [status |-> 500, error |-> "Internal server error"])
        ELSE Await(r, "cancel_findOne", request, NoLoc)
    /\ UNCHANGED <<users, bookings, nextId, now>>

\* `booking = await Bookings.findOne(..)`, the two checks, and `update`
CancelFindOne(r) ==
    /\ pc[r] = "cancel_findOne"
    /\ LET i == BookingsFindOne(req[r].id.oid)
       IN  IF i = 0
           THEN Respond(r, req[r], [status |-> 404, error |-> "Booking not found"])
           ELSE IF IsCancelled(bookings[i])
           THEN Respond(r, req[r], [status |-> 400, error |-> "Booking already cancelled"])
           ELSE Await(r, "cancel_updateOne", req[r],
                      [update |-> CancelUpdate(bookings[i], req[r].body, DateAt(now))])
    /\ UNCHANGED <<users, bookings, nextId, now>>

\* `await Bookings.updateOne({ _id }, { $set: update })`, then the response
CancelUpdateOne(r) ==
    /\ pc[r] = "cancel_updateOne"
    /\ bookings' = [i \in DOMAIN bookings |->
                      IF bookings[i]._id = req[r].id.oid
                      THEN Spread(bookings[i], loc[r].update)
                      ELSE bookings[i]]
    /\ Respond(r, req[r], [status |-> 200,
                           refundEligible |-> loc[r].update.cancellation.refundEligible])
    /\ UNCHANGED <<users, nextId, now>>

(***************************************************************************)
(* Bookings: the two listings.                                             *)
(***************************************************************************)
\* the orders `.sort({ createdAt: -1 })` may return the documents at the
\* indices in S: newest first, documents of equal createdAt in any order
NewestFirst(S) ==
    {o \in [1..Cardinality(S) -> S] :
        /\ \A i, j \in DOMAIN o : i # j => o[i] # o[j]
        /\ \A i, j \in DOMAIN o :
              i < j => bookings[o[i]].createdAt.t >= bookings[o[j]].createdAt.t}

OwnerQueries == {<<>>, [email |-> ""], [email |-> "a"], [email |-> "b"]}

\* the projection with the fault of keeping every field (C5 must detect it)
ProjectNothing(doc) == doc

\* `.project({ paymentInfo: 0 })`
Project(doc) == Without(doc, "paymentInfo")

\* the document as the owner listing shows it
OwnerView(doc) ==
    Spread(Project(doc), [startDate |-> FormatDisplayDate(doc, "startDate"),
                          endDate |-> FormatDisplayDate(doc, "endDate")])

\* GET /bookings?email=
GetBookings(r) ==
    /\ Arrives(r)
    /\ \E query \in OwnerQueries :
        LET request == [server |-> "index", route |-> "GET /bookings", query |-> query]
        IN  IF ~Truthy(query, "email")
            THEN Respond(r, request, [status |-> 400, error |-> "Email is required"])
            ELSE \E o \in NewestFirst({i \in DOMAIN bookings :
                                          /\ "email" \in DOMAIN bookings[i]
                                          /\ bookings[i].email = query.email}) :
                    Respond(r, request,
                            [status |-> 200, count |-> Len(o),
                             data |-> [k \in DOMAIN o |-> OwnerView(bookings[o[k]])]])
    /\ UNCHANGED <<users, bookings, nextId, now>>

\* an optional query parameter: absent, or one of vals
Optional(f, vals) == {<<>>} \cup {[x \in {f} |-> v] : v \in vals}

\* the query string of GET /admin/bookings: each filter present or not
AdminQueries ==
    {Spread(Spread(a, b), Spread(c, d)) :
        a \in Optional("status", {"cancelled"}),
        b \in Optional("resortId", {"r1"}),
        c \in Optional("startDate", {IsoString(2 * TicksPerDay)}),
        d \in Optional("endDate", {IsoString(4 * TicksPerDay)})}

\* the handler's `query` object: status and resortId when truthy, the two
\* date conditions only when both bounds are given
AdminQuery(q) ==
    Spread(Spread(IF Truthy(q, "status") THEN [status |-> q.status] ELSE <<>>,
                  IF Truthy(q, "resortId") THEN [resortId |-> q.resortId] ELSE <<>>),
           IF "startDate" \in DOMAIN q /\ "endDate" \in DOMAIN q
           THEN [startDate |-> [gte |-> NewDate(q, "startDate")],
                 endDate |-> [lte |-> NewDate(q, "endDate")]]
           ELSE <<>>)

\* a stored value is of BSON type date
IsBsonDate(v) == "t" \in DOMAIN v

\* MongoDB's match of a document against the query: equality on status and
\* resortId; $gte / $lte against a Date match only fields of BSON type date
\* (a date stored as a JSON string never matches)
Matches(doc, query) ==
    /\ "status" \in DOMAIN query =>
          "status" \in DOMAIN doc /\ doc.status = query.status
    /\ "resortId" \in DOMAIN query =>
          "resortId" \in DOMAIN doc /\ doc.resortId = query.resortId
    /\ "startDate" \in DOMAIN query =>
          /\ "startDate" \in DOMAIN doc
          /\ IsBsonDate(doc.startDate)
          /\ IsValidDate(query.startDate.gte)
          /\ doc.startDate.t >= query.startDate.gte.t
    /\ "endDate" \in DOMAIN query =>
          /\ "endDate" \in DOMAIN doc
          /\ IsBsonDate(doc.endDate)
          /\ IsValidDate(query.endDate.lte)
          /\ doc.endDate.t <= query.endDate.lte.t

\* GET /admin/bookings
AdminBookings(r) ==
    /\ Arrives(r)
    /\ \E q \in AdminQueries :
        \E o \in NewestFirst({i \in DOMAIN bookings : Matches(bookings[i], AdminQuery(q))}) :
            Respond(r, [server |-> "index", route |-> "GET /admin/bookings", query |-> q],
                    [status |-> 200, count |-> Len(o),
                     data |-> [k \in DOMAIN o |-> bookings[o[k]]]])
    /\ UNCHANGED <<users, bookings, nextId, now>>

(***************************************************************************)
(* The clock.                                                              *)
(***************************************************************************)
Tick ==
    /\ now < MaxTime
    /\ now' = now + 1
    /\ UNCHANGED <<users, bookings, nextId, pc, req, loc, last>>

Init ==
    /\ users = <<>>
    /\ bookings = <<>>
    /\ nextId = 1
    /\ now = 0
    /\ pc = [r \in Req |-> "idle"]
    /\ req = [r \in Req |-> NoReq]
    /\ loc = [r \in Req |-> NoLoc]
    /\ last = NoLast

NextUsers ==
    \/ \E r \in Req :
        \/ PostUsers(r)
        \/ PostUsersFindOne(r)
        \/ PostUsersInsertOne(r)
    \/ Tick

SpecUsers == Init /\ [][NextUsers]_vars

NextCreate ==
    \/ PostBookings(1, CardBodies)
    \/ PostBookingsInsertOne(1)
    \/ Tick

SpecCreate == Init /\ [][NextCreate]_vars

\* no other request is between its arrival and its response
Alone(r) == \A q \in Req \ {r} : pc[q] \in {"idle", "done"}

\* the booking write path: creations and cancellations, interleaved at every
\* await
NextBookings ==
    \/ \E r \in Req :
        \/ PostBookings(r, StartBodies)
        \/ PostBookingsInsertOne(r)
        \/ CancelBooking(r)
        \/ CancelFindOne(r)
        \/ CancelUpdateOne(r)
    \/ Tick

Spec == Init /\ [][NextBookings]_vars

\* the same requests handled one after the other
NextSeq ==
    \/ \E r \in Req :
        \/ Alone(r) /\ PostBookings(r, StartBodies)
        \/ Alone(r) /\ PostBookingsInsertOne(r)
        \/ Alone(r) /\ CancelBooking(r)
        \/ Alone(r) /\ CancelFindOne(r)
        \/ Alone(r) /\ CancelUpdateOne(r)
    \/ Tick

SpecSeq == Init /\ [][NextSeq]_vars

\* the two listings over the stores that creations and cancellations build
NextRead ==
    \/ \E r \in Req :
        \/ Alone(r) /\ PostBookings(r, StayBodies)
        \/ Alone(r) /\ PostBookingsInsertOne(r)
        \/ Alone(r) /\ CancelBooking(r)
        \/ Alone(r) /\ CancelFindOne(r)
        \/ Alone(r) /\ CancelUpdateOne(r)
        \/ Alone(r) /\ GetBookings(r)
        \/ Alone(r) /\ AdminBookings(r)
    \/ Tick

SpecRead == Init /\ [][NextRead]_vars

(***************************************************************************)
(* The claims.                                                             *)
(***************************************************************************)
CancelRoute == "PUT /bookings/:id/cancel"

\* the stored status of the i-th booking is "cancelled"
StoredCancelled(i) ==
    "status" \in DOMAIN bookings[i] /\ bookings[i].status = "cancelled"

\* request r takes the step that leaves label `at`
Leaves(r, at) == pc[r] = at /\ pc'[r] # at

\* C1: with requests handled one after the other, a cancel of an existing
\* booking that is not cancelled goes on to its update, which answers 200 and
\* stores status "cancelled" with the sub-record it computed; a cancel of a
\* cancelled booking answers 400 "Booking already cancelled" and changes no
\* document; and no step changes the sub-record of a cancelled booking.
C1_CancelTwice ==
    [][/\ \A r \in Req :
            /\ Leaves(r, "cancel_findOne") =>
                 LET i == BookingsFindOne(req[r].id.oid)
                 IN  i # 0 =>
                       /\ bookings' = bookings
                       /\ IF StoredCancelled(i)
                          THEN last'.res = [status |-> 400,
                                            error |-> "Booking already cancelled"]
                          ELSE pc'[r] = "cancel_updateOne"
            /\ Leaves(r, "cancel_updateOne") =>
                 LET i == BookingsFindOne(req[r].id.oid)
                 IN  /\ ~StoredCancelled(i)
                     /\ last'.res.status = 200
                     /\ bookings'[i].status = "cancelled"
                     /\ bookings'[i].cancellation = loc[r].update.cancellation
       /\ \A i \in DOMAIN bookings :
            StoredCancelled(i) => bookings'[i].cancellation = bookings[i].cancellation
      ]_vars

\* C1 witness: a second cancel of a cancelled booking was answered 400
C1_Witness ==
    /\ last.req.route = CancelRoute
    /\ last.res.status = 400
    /\ \E i \in DOMAIN bookings :
          bookings[i]._id = last.req.id.oid /\ StoredCancelled(i)

\* C2 (as claimed): under any interleaving, once a booking's stored status is
\* "cancelled" no step changes its cancellation sub-record.
C2_NeverRewritten ==
    [][\A i \in DOMAIN bookings :
          StoredCancelled(i) => bookings'[i].cancellation = bookings[i].cancellation
      ]_vars

\* the stay start of the i-th booking is a date D
HasStart(i) ==
    "startDate" \in DOMAIN bookings[i] /\ "iso" \in DOMAIN bookings[i].startDate

\* D - 3 days, for the i-th booking
Deadline(i) == bookings[i].startDate.iso - RefundDays * TicksPerDay

\* C3: a cancelled booking with stay start D, cancelled at T, stores
\* refundEligible = TRUE exactly when T < D - 3 days (so FALSE at T = D - 3
\* days), and the 200 response returns the stored flag.
C3_RefundBoundary ==
    /\ \A i \in DOMAIN bookings :
          StoredCancelled(i) /\ HasStart(i) =>
             (bookings[i].cancellation.refundEligible
                <=> bookings[i].cancellation.date.t < Deadline(i))
    /\ last.req.route = CancelRoute /\ last.res.status = 200 =>
          \E i \in DOMAIN bookings :
             /\ bookings[i]._id = last.req.id.oid
             /\ last.res.refundEligible = bookings[i].cancellation.refundEligible

\* C3 witness: a booking cancelled at exactly D - 3 days, stored not eligible
C3_Witness ==
    \E i \in DOMAIN bookings :
        /\ StoredCancelled(i) /\ HasStart(i)
        /\ bookings[i].cancellation.date.t = Deadline(i)
        /\ ~bookings[i].cancellation.refundEligible

\* some stored user document has email e
EmailStored(e) ==
    \E i \in DOMAIN users : "email" \in DOMAIN users[i] /\ users[i].email = e

C5_NoPaymentInfo ==
    last.req.route = "GET /bookings" =>
        IF Truthy(last.req.query, "email")
        THEN \A k \in DOMAIN last.res.data :
                "paymentInfo" \notin DOMAIN last.res.data[k]
        ELSE last.res.status = 400 /\ "data" \notin DOMAIN last.res

\* C5 witness: a listing that returned a booking stored with payment info
C5_Witness ==
    /\ last.req.route = "GET /bookings"
    /\ last.res.status = 200
    /\ \E k \in DOMAIN last.res.data : \E i \in DOMAIN bookings :
          /\ bookings[i]._id = last.res.data[k]._id
          /\ "paymentInfo" \in DOMAIN bookings[i]
          /\ "cardNumber" \in DOMAIN bookings[i].paymentInfo

\* the characters `sub` appear, in order and adjacent, within `chars`
Appears(sub, chars) ==
    \E k \in 0..(Len(chars) - Len(sub)) : SubSeq(chars, k + 1, k + Len(sub)) = sub

\* C6 (as claimed): a stored booking whose payload carries a card number is
\* answered 201 with cardNumber = the mask prefix followed by the last four
\* characters supplied, and the supplied number does not appear in it; a
\* payload with payment information but no card number gets it back unchanged.
C6_MaskedCard ==
    [][\A r \in Req :
          /\ Leaves(r, "bookings_insertOne")
          /\ bookings' # bookings
          /\ "paymentInfo" \in DOMAIN req[r].body
          => LET info == req[r].body.paymentInfo
             IN  IF "cardNumber" \in DOMAIN info /\ CardTruthy(info.cardNumber)
                 THEN /\ last'.res.status = 201
                      /\ last'.res.data.paymentInfo.cardNumber
                            = CardString(MaskPrefix \o Last4(info.cardNumber.chars))
                      /\ ~Appears(info.cardNumber.chars,
                                  last'.res.data.paymentInfo.cardNumber.chars)
                 ELSE /\ last'.res.status = 201
                      /\ last'.res.data.paymentInfo = info
      ]_vars

\* the :id names a stored booking
Resolves(id) == id.hex /\ \E i \in DOMAIN bookings : bookings[i]._id = id.oid

\* C7 (as claimed): a cancel whose identifier does not resolve to a stored
\* booking is answered 404 "Booking not found" and changes no booking.
C7_NotFound ==
    [][\A r \in Req :
          /\ (/\ pc[r] = "idle" /\ pc'[r] = "done"
              /\ last'.req.route = CancelRoute
              /\ ~Resolves(last'.req.id))
             => /\ last'.res = [status |-> 404, error |-> "Booking not found"]
                /\ bookings' = bookings
          /\ (Leaves(r, "cancel_findOne") /\ ~Resolves(req[r].id))
             => /\ last'.res = [status |-> 404, error |-> "Booking not found"]
                /\ bookings' = bookings
      ]_vars

\* the document satisfies every filter the query string supplies
Satisfies(doc, q) ==
    /\ "status" \in DOMAIN q => "status" \in DOMAIN doc /\ doc.status = q.status
    /\ "resortId" \in DOMAIN q =>
          "resortId" \in DOMAIN doc /\ doc.resortId = q.resortId
    /\ "startDate" \in DOMAIN q =>
          /\ IsValidDate(NewDate(doc, "startDate"))
          /\ NewDate(doc, "startDate").t >= NewDate(q, "startDate").t
    /\ "endDate" \in DOMAIN q =>
          /\ IsValidDate(NewDate(doc, "endDate"))
          /\ NewDate(doc, "endDate").t <= NewDate(q, "endDate").t

\* C8 (as claimed): GET /admin/bookings returns exactly the stored bookings
\* that satisfy every supplied filter, a single date bound included.
C8_AdminFilters ==
    [][last' # last /\ last'.req.route = "GET /admin/bookings" =>
          Range(last'.res.data)
             = {bookings[i] : i \in {j \in DOMAIN bookings :
                                       Satisfies(bookings[j], last'.req.query)}}
      ]_vars

\* C9 (as claimed): the users collection holds at most one document per email.
C9_UniqueEmail ==
    \A i, j \in DOMAIN users : i # j => users[i].email # users[j].email

\* C10 (as claimed): POST /bookings answers 500 only when nothing was stored,
\* and a stored booking is answered 201.
C10_ErrorMeansNotStored ==
    [][\A r \in Req :
          Leaves(r, "bookings_insertOne") =>
             /\ last'.res.status = 500 => bookings' = bookings
             /\ bookings' # bookings => last'.res.status = 201
      ]_vars

====
